---- MODULE Spec2Model ----
(***************************************************************************)
(* Order fulfilment for hosted panels: the provisioning handler            *)
(* (api/provision-pterodactyl.js, in its settings-table and its            *)
(* environment variant), the e-mail dispatcher (api/send_email.js) and the *)
(* notification broadcast handler (api/notify.js).                         *)
(*                                                                         *)
(* A handler is an async function: it runs without interruption from one   *)
(* await to the next.  Each action below is the return of one awaited call *)
(* together with all the code that runs up to the next await (or up to the *)
(* response).  The database, the panel, the e-mail provider and the chat   *)
(* API are outside the repository: what they answer is an input of the     *)
(* action, drawn from the shapes the code distinguishes.                   *)
(***************************************************************************)
EXTENDS Integers, Sequences, FiniteSets, TLC

\* ------------------------------------------------------------------ bounds
NumOrders == 1
MaxRequests == 2
MaxBatch == 2
MaxLen == 3

\* Two invocations of the provisioning handler may be in flight at once.
Slots == {"a", "b"}
OrderIds == 1..NumOrders
\* The orders table also holds an order that no request of the model names.
OtherOrderId == NumOrders + 1
TableIds == OrderIds \cup {OtherOrderId}

\* ------------------------------------------------------- program constants
\* order.pterodactyl_server_id / req.body.order_id when null or absent
NoServerId == 0
NoOrderId == 0
NoUserId == 0
PanelCategory == "panel_pterodactyl"

VARIABLES
    variant,      \* which provisioning handler is deployed: "settings" | "env"
    env,          \* process.env: which of the variables are set
    orders,       \* table orders: id -> [status, pterodactyl_server_id]
    users,        \* the panel's accounts: users[i] is the order whose contact e-mail owns user id i
    servers,      \* the panel's servers: servers[i] = [external_id, user], uuid i
    serverCalls,  \* per order: POST /api/application/servers calls issued so far
    started,      \* provisioning requests received so far
    req,          \* per slot: the handler invocation running in it
    notify,       \* the invocation of the broadcast handler
    fmt,          \* one field of a record on its way into a caption
    db            \* writes so far to the tables other than orders

vars == <<variant, env, orders, users, servers, serverCalls, started, req, notify, fmt, db>>

\* ---------------------------------------------------------------- responses
NoResp == [status |-> 0, body |-> "none", details |-> "none"]
\* the handlers hold no insert, update or delete on these tables
NoWrites == [settings |-> 0, products |-> 0, pterodactyl_configs |-> 0]
Json(code, text) == [status |-> code, body |-> text, details |-> "none"]

MethodNotAllowed == Json(405, "Method not allowed")
OrderIdRequired == Json(400, "Order ID is required")
CredentialsMissing == Json(500, "Pterodactyl API credentials not configured")
OrderNotFound == Json(404, "Order not found.")
NotPanelProduct == Json(400, "Product is not a Pterodactyl panel type.")
ConfigNotLinked == Json(500, "Pterodactyl configuration not linked to product.")
AlreadyProvisioned == Json(200, "Server already provisioned for this order.")
UserCreateFailed == Json(500, "Failed to create Pterodactyl user.")
ServerCreateFailed == Json(500, "Failed to create Pterodactyl server.")
Provisioned == Json(200, "Pterodactyl server provisioned and order completed.")
\* the catch block: the generic answer with err.message attached
InternalError(message) == [status |-> 500, body |-> "Internal Server Error", details |-> message]
Proceed == Json(0, "proceed")

\* ------------------------------------------------------------ the e-mail API
NoEmailResult == [success |-> FALSE, payload |-> "none", raised |-> FALSE, sends |-> 0]

\* sendEmail without its catch block: a raising provider call leaves it.
sendEmailUncaught(provider) ==
    CASE provider = "ok"    -> [success |-> TRUE, payload |-> "data", raised |-> FALSE, sends |-> 1]
      [] provider = "error" -> [success |-> FALSE, payload |-> "error", raised |-> FALSE, sends |-> 1]
      [] OTHER              -> [success |-> FALSE, payload |-> "none", raised |-> TRUE, sends |-> 1]

\* sendEmail: one provider call inside try/catch.  provider is what
\* resend.emails.send did: "ok" ({data}), "error" ({error}) or "raise".
\* The result is {success, data} | {success, error} | {success, error: err.message};
\* raised says whether an exception leaves the function, sends counts the
\* provider calls.
sendEmail(provider) ==
    CASE provider = "ok"    -> [success |-> TRUE, payload |-> "data", raised |-> FALSE, sends |-> 1]
      [] provider = "error" -> [success |-> FALSE, payload |-> "error", raised |-> FALSE, sends |-> 1]
      [] OTHER              -> [success |-> FALSE, payload |-> "message", raised |-> FALSE, sends |-> 1]

\* ------------------------------------------------------- handler invocations
NoCalls == [search |-> 0, createUser |-> 0, createServer |-> 0,
            update |-> 0, email |-> 0, chat |-> 0]

NoOrder == [loaded |-> FALSE]

\* no answer yet / the fetch (or reading its body) raised
NoAnswer == [ok |-> FALSE, shape |-> "unasked"]
Raised == [ok |-> FALSE, shape |-> "raise"]

\* the user search: whether it was answered with a 2xx status, the panel user
\* ids of the records in the body's data array, whether console.error ran
\* for it, whether the call (or reading its body) raised
NoSearch == [asked |-> FALSE, ok |-> FALSE, listed |-> {}, logged |-> FALSE, raised |-> FALSE]
SearchRaised == [asked |-> TRUE, ok |-> FALSE, listed |-> {}, logged |-> FALSE, raised |-> TRUE]

\* database reads issued by the invocation
NoReads == [settings |-> 0, orders |-> 0]

IdleReq ==
    [pc |-> "idle", method |-> "none", body |-> "none",
     order_id |-> NoOrderId, settings |-> "unread", orderQuery |-> "unread",
     nameable |-> TRUE, order |-> NoOrder, search |-> NoSearch, reads |-> NoReads,
     pterodactylUserId |-> NoUserId, pterodactylServerId |-> NoServerId,
     found |-> "none", userAnswer |-> NoAnswer, serverAnswer |-> NoAnswer,
     allocation |-> "none", updateOrderError |-> "none",
     emailResult |-> NoEmailResult,
     emailIp |-> "none",
     chat |-> "none", calls |-> NoCalls, resp |-> NoResp, responses |-> 0]

\* res.status(..).json(..) without the return in front of it
RespondAndGoOn(r, answer) == [r EXCEPT !.resp = answer, !.responses = @ + 1]

\* return res.status(..).json(..): the response is sent and the invocation ends.
Respond(r, answer) == [r EXCEPT !.pc = "done", !.resp = answer, !.responses = @ + 1]

\* The joined product of an order row: null, or its category and whether a
\* pterodactyl_configs row is linked (the env variant selects no such join).
NullProduct == [present |-> FALSE, category |-> "null", pterodactyl_configs |-> FALSE]
Products(v) ==
    {NullProduct} \cup
    { [present |-> TRUE, category |-> c, pterodactyl_configs |-> k] :
        c \in {PanelCategory, "ebook"},
        k \in (IF v = "settings" THEN BOOLEAN ELSE {FALSE}) }

\* a select that leaves pterodactyl_server_id out of the row
OrderRowsNoServerId(v, id) ==
    { [loaded |-> TRUE, id |-> id,
       status |-> orders[id].status,
       pterodactyl_server_id |-> NoServerId,
       products |-> p] :
        p \in Products(v) }

\* What .from("orders").select(..).eq("id", id).single() can return for order id.
OrderRows(v, id) ==
    { [loaded |-> TRUE, id |-> id,
       status |-> orders[id].status,
       pterodactyl_server_id |-> orders[id].pterodactyl_server_id,
       products |-> p] :
        p \in Products(v) }

\* ---------------------------------------------------------- guards (pure)
\* the order_id validation ahead of the method check
RequestGuardsIdFirst(method, body, order_id) ==
    IF body = "undefined" THEN InternalError("body")
    ELSE IF order_id = NoOrderId THEN OrderIdRequired
    ELSE IF method # "POST" THEN MethodNotAllowed
    ELSE Proceed

\* method check and order_id validation
RequestGuards(method, body, order_id) ==
    IF method # "POST" THEN MethodNotAllowed
    ELSE IF body = "undefined" THEN InternalError("body")
    ELSE IF order_id = NoOrderId THEN OrderIdRequired
    ELSE Proceed

\* settings variant: the settings row; q is what the query returned
SettingsGuard(q) ==
    IF q = "raise" THEN InternalError("settings")
    ELSE IF q # "row" THEN CredentialsMissing
    ELSE Proceed

\* env variant: process.env.PTERODACTYL_API_KEY / PTERODACTYL_PANEL_URL
EnvGuard(creds) == IF creds THEN Proceed ELSE CredentialsMissing

\* OrderGuards without the "already provisioned" return.
OrderGuardsNoProvisionedCheck(v, q, order, username, contact_email) ==
    IF q = "raise" THEN InternalError("orders")
    ELSE IF q # "row" THEN OrderNotFound
    ELSE IF ~order.products.present THEN InternalError("products")
    ELSE IF order.products.category # PanelCategory THEN NotPanelProduct
    ELSE IF v = "settings" /\ ~order.products.pterodactyl_configs THEN ConfigNotLinked
    ELSE IF ~username /\ ~contact_email THEN InternalError("contact_email")
    ELSE Proceed

\* OrderGuards without the category return.
OrderGuardsNoCategoryCheck(v, q, order, username, contact_email) ==
    IF q = "raise" THEN InternalError("orders")
    ELSE IF q # "row" THEN OrderNotFound
    ELSE IF ~order.products.present THEN InternalError("products")
    ELSE IF v = "settings" /\ ~order.products.pterodactyl_configs THEN ConfigNotLinked
    ELSE IF order.pterodactyl_server_id # NoServerId THEN AlreadyProvisioned
    ELSE IF ~username /\ ~contact_email THEN InternalError("contact_email")
    ELSE Proceed

\* The checks between the order query and the user search.  username and
\* contact_email say whether the row holds them: they are read once more for
\* the panel username, order.username || order.contact_email.split('@')[0].
OrderGuards(v, q, order, username, contact_email) ==
    IF q = "raise" THEN InternalError("orders")
    ELSE IF q # "row" THEN OrderNotFound
    ELSE IF ~order.products.present THEN InternalError("products")
    ELSE IF order.products.category # PanelCategory THEN NotPanelProduct
    ELSE IF v = "settings" /\ ~order.products.pterodactyl_configs THEN ConfigNotLinked
    ELSE IF order.pterodactyl_server_id # NoServerId THEN AlreadyProvisioned
    ELSE IF ~username /\ ~contact_email THEN InternalError("contact_email")
    ELSE Proceed

\* ------------------------------------------------------ the panel's answers
\* A panel answer is [ok, shape]: the HTTP status class and the layout of the
\* JSON body.  "list" / "plain" are the layouts the panel documents
\* ({data: [..]} for a search, {attributes: {..}} for a created object),
\* "wrapped" nests that under a data key, "none" carries neither.
\* "error" is a body with an error key and nothing else.
SearchAnswers == [ok : BOOLEAN, shape : {"list", "wrapped", "none", "error"}]
CreateAnswers == [ok : BOOLEAN, shape : {"plain", "wrapped", "none"}]

\* panel user ids registered under the contact e-mail of order id
Matches(id) == { i \in 1..Len(users) : users[i] = id }
FirstMatch(id) == CHOOSE i \in Matches(id) : \A j \in Matches(id) : i <= j

\* the records in the data array of a search answer's body
Listed(answer, id) == IF answer.shape = "list" THEN Matches(id) ELSE {}

\* console.error("Error fetching Pterodactyl user:", ..): the settings variant
\* tests response.ok, the env variant tests the error key of the body
SearchLogged(v, answer) ==
    IF v = "settings" THEN ~answer.ok ELSE answer.shape = "error"

\* a search that reuses a listed user only when the answer is 2xx
UserFoundIfOk(v, answer, id) ==
    /\ answer.ok
    /\ Matches(id) # {}
    /\ IF v = "settings" THEN answer.shape = "list" ELSE answer.shape = "wrapped"

\* a handler that creates a panel user whatever the search lists
UserFoundNever(v, answer, id) == FALSE

\* data.length > 0 on the part of the body the variant reads
UserFound(v, answer, id) ==
    /\ Matches(id) # {}
    /\ IF v = "settings" THEN answer.shape = "list" ELSE answer.shape = "wrapped"

\* the user-creation test without its response.ok part
UserCreateOkBodyOnly(v, answer) ==
    IF v = "settings" THEN answer.shape = "plain"
    ELSE answer.shape = "wrapped"

\* the failure test after POST /api/application/users
UserCreateOk(v, answer) ==
    IF v = "settings" THEN answer.ok /\ answer.shape = "plain"
    ELSE answer.shape = "wrapped"

\* a handler that takes every server-creation answer for a success
ServerCreateOkAlways(v, answer) == TRUE

\* the failure test after POST /api/application/servers
ServerCreateOk(v, answer) ==
    IF v = "settings" THEN answer.ok /\ answer.shape = "plain"
    ELSE answer.shape = "wrapped"

\* relationships.allocations.data[0].attributes.ip without the ?. guard
AllocationOkUnguarded(v, alloc) == alloc = "one"

\* reading relationships.allocations.data[0]: "N/A" placeholder, or a TypeError
AllocationOk(v, alloc) ==
    IF v = "settings" THEN alloc # "norel" ELSE alloc = "one"

\* the ip and port of the completion e-mail: allocation ? allocation.ip : 'N/A'
EmailIp(alloc) == IF alloc = "one" THEN "ip" ELSE "N/A"

\* an update that sets the status and leaves the server id out
UpdatedOrderStatusOnly(row, uuid) ==
    [row EXCEPT !.status = "done"]

\* an update that writes the whole row back
UpdatedOrderWholeRow(row, uuid) ==
    [status |-> "done", pterodactyl_server_id |-> uuid, product_id |-> 0]

\* .update({status: "done", pterodactyl_server_id}) on one row
UpdatedOrder(row, uuid) ==
    [row EXCEPT !.status = "done", !.pterodactyl_server_id = uuid]

\* an order update whose error result ends the request
AfterUpdateFatal(q) ==
    IF q = "raise" THEN InternalError("update")
    ELSE IF q = "error" THEN Json(500, "Failed to update order.")
    ELSE Proceed

\* after the order update: an error result is logged, the handler goes on
AfterUpdate(q) == IF q = "raise" THEN InternalError("update") ELSE Proceed

\* a handler that gives up when sendEmail reports a failure
AfterEmailChecked(result) ==
    IF result.raised THEN InternalError("email")
    ELSE IF ~result.success THEN Json(500, "Failed to send email.")
    ELSE Proceed

\* after await sendEmail(..): its result is not looked at
AfterEmail(result) == IF result.raised THEN InternalError("email") ELSE Proceed

\* if (BOT_TOKEN && CHAT_ID)
ChatConfigured(token, chat_id) == token /\ chat_id

\* a chat call wrapped in its own try/catch
AfterChatSwallowed(answer) == Provisioned

\* after await fetch(sendMessage): the answer is not looked at
AfterChat(answer) == IF answer = "raise" THEN InternalError("chat") ELSE Provisioned

\* ------------------------------------------------------------------ actions
\* A response ends its invocation: the slot is released (Finish) before the
\* next event of any invocation is taken up.
NoneDone == \A t \in Slots : req[t].pc # "done"

\* the server-creation call goes out for the order of invocation r
IssueServerCreate(r, uid) ==
    [r EXCEPT !.pc = "createServer", !.pterodactylUserId = uid,
              !.calls.createServer = @ + 1]

\* A request arrives.  Up to the first await: method check, order_id check
\* and, in the env variant, the credentials read from process.env.
Receive(s) ==
    /\ req[s].pc = "idle"
    /\ NoneDone
    /\ started < MaxRequests
    /\ s = "b" => req["a"].pc # "idle"
    /\ \E method \in {"POST", "GET"}, body \in {"json", "undefined"},
          id \in OrderIds \cup {NoOrderId} :
        LET r == [IdleReq EXCEPT !.method = method, !.body = body,
                                 !.order_id = IF body = "json" THEN id ELSE NoOrderId]
            g == RequestGuards(method, body, r.order_id)
            e == EnvGuard(env.PTERODACTYL_API_KEY /\ env.PTERODACTYL_PANEL_URL)
        IN  req' = [req EXCEPT ![s] =
                IF g # Proceed THEN Respond(r, g)
                ELSE IF variant = "settings"
                     THEN [r EXCEPT !.pc = "settings", !.reads.settings = @ + 1]
                ELSE IF e # Proceed THEN Respond(r, e)
                ELSE [r EXCEPT !.pc = "order", !.reads.orders = @ + 1]]
    /\ started' = started + 1
    /\ UNCHANGED <<db, fmt, notify, variant, env, orders, users, servers, serverCalls>>

\* settings variant: the settings row arrives; the order query goes out.
SettingsReturn(s) ==
    /\ req[s].pc = "settings"
    /\ NoneDone
    /\ \E q \in {"row", "norow", "incomplete", "raise"} :
        LET g == SettingsGuard(q)
            r == [req[s] EXCEPT !.settings = q]
        IN  req' = [req EXCEPT ![s] =
                IF g # Proceed THEN Respond(r, g)
                ELSE [r EXCEPT !.pc = "order", !.reads.orders = @ + 1]]
    /\ UNCHANGED <<db, fmt, notify, variant, env, orders, users, servers, serverCalls, started>>

\* The order row arrives: the guards, then the user search goes out.
OrderReturn(s) ==
    /\ req[s].pc = "order"
    /\ NoneDone
    /\ \E q \in {"row", "error", "raise"}, o \in OrderRows(variant, req[s].order_id),
          username \in BOOLEAN, contact_email \in BOOLEAN :
        LET r == [req[s] EXCEPT !.orderQuery = q]
            g == OrderGuards(variant, q, o, username, contact_email)
            \* line 137 is reached when no earlier check has returned
            reached == g \in {Proceed, InternalError("contact_email")}
            l == IF q # "row" THEN r
                 ELSE IF reached THEN [r EXCEPT !.order = o, !.nameable = username \/ contact_email]
                 ELSE [r EXCEPT !.order = o]
        IN  req' = [req EXCEPT ![s] =
                IF g # Proceed THEN Respond(l, g)
                ELSE [l EXCEPT !.pc = "search", !.calls.search = @ + 1]]
    /\ UNCHANGED <<db, fmt, notify, variant, env, orders, users, servers, serverCalls, started>>

\* The user search answers: reuse the first match, or create a user.
SearchReturn(s) ==
    /\ req[s].pc = "search"
    /\ NoneDone
    /\ \/ /\ req' = [req EXCEPT ![s] =
                    Respond([@ EXCEPT !.search = SearchRaised], InternalError("search"))]
          /\ UNCHANGED serverCalls
       \/ \E answer \in SearchAnswers :
            LET id == req[s].order_id
                r == [req[s] EXCEPT !.search =
                        [asked |-> TRUE, ok |-> answer.ok, listed |-> Listed(answer, id),
                         logged |-> SearchLogged(variant, answer), raised |-> FALSE]]
            IN  IF UserFound(variant, answer, id)
                THEN /\ req' = [req EXCEPT ![s] =
                            IssueServerCreate([r EXCEPT !.found = "match"], FirstMatch(id))]
                     /\ serverCalls' = [serverCalls EXCEPT ![id] = @ + 1]
                ELSE /\ req' = [req EXCEPT ![s] =
                            [r EXCEPT !.pc = "createUser", !.found = "nomatch",
                                      !.calls.createUser = @ + 1]]
                     /\ UNCHANGED serverCalls
    /\ UNCHANGED <<db, fmt, notify, variant, env, orders, users, servers, started>>

\* The user creation answers.  The panel registers the account when it
\* answers 2xx, which it does only for an e-mail it does not know yet.
CreateUserReturn(s) ==
    /\ req[s].pc = "createUser"
    /\ NoneDone
    /\ \/ /\ req' = [req EXCEPT ![s] = Respond([@ EXCEPT !.userAnswer = Raised], InternalError("users"))]
          /\ UNCHANGED <<users, serverCalls>>
       \/ \E answer \in CreateAnswers :
            LET r == [req[s] EXCEPT !.userAnswer = answer]
                id == r.order_id
            IN  /\ answer.ok => Matches(id) = {}
                /\ users' = IF answer.ok THEN Append(users, id) ELSE users
                /\ IF UserCreateOk(variant, answer)
                   THEN /\ req' = [req EXCEPT ![s] = IssueServerCreate(r, Len(users) + 1)]
                        /\ serverCalls' = [serverCalls EXCEPT ![id] = @ + 1]
                   ELSE /\ req' = [req EXCEPT ![s] = Respond(r, UserCreateFailed)]
                        /\ UNCHANGED serverCalls
    /\ UNCHANGED <<db, fmt, notify, variant, env, orders, servers, started>>

\* The server creation answers.  The panel has created the server when it
\* answers 2xx; its uuid is the server's place in the panel's list.
CreateServerReturn(s) ==
    /\ req[s].pc = "createServer"
    /\ NoneDone
    /\ \/ /\ req' = [req EXCEPT ![s] = Respond([@ EXCEPT !.serverAnswer = Raised], InternalError("servers"))]
          /\ UNCHANGED servers
       \/ \E answer \in CreateAnswers, alloc \in {"one", "empty", "norel"} :
            LET r == [req[s] EXCEPT !.serverAnswer = answer]
                uuid == Len(servers) + 1
            IN  /\ servers' = IF answer.ok
                              THEN Append(servers, [external_id |-> r.order_id,
                                                    user |-> r.pterodactylUserId])
                              ELSE servers
                /\ req' = [req EXCEPT ![s] =
                        IF ~ServerCreateOk(variant, answer) THEN Respond(r, ServerCreateFailed)
                        ELSE IF ~AllocationOk(variant, alloc)
                             THEN Respond([r EXCEPT !.pterodactylServerId = uuid, !.allocation = alloc],
                                          InternalError("allocations"))
                        ELSE [r EXCEPT !.pc = "update", !.pterodactylServerId = uuid,
                                       !.allocation = alloc, !.calls.update = @ + 1]]
    /\ UNCHANGED <<db, fmt, notify, variant, env, orders, users, serverCalls, started>>

\* The order update answers; sendEmail is called.
UpdateReturn(s) ==
    /\ req[s].pc = "update"
    /\ NoneDone
    /\ \E q \in {"ok", "error", "raise"} :
        LET r == req[s]
            g == AfterUpdate(q)
        IN  /\ orders' = IF q = "ok"
                         THEN [orders EXCEPT ![r.order_id] = UpdatedOrder(@, r.pterodactylServerId)]
                         ELSE orders
            /\ req' = [req EXCEPT ![s] =
                    IF g # Proceed THEN Respond([r EXCEPT !.updateOrderError = q], g)
                    ELSE [r EXCEPT !.pc = "email", !.updateOrderError = q,
                                   !.emailIp = EmailIp(r.allocation),
                                   !.calls.email = @ + 1]]
    /\ UNCHANGED <<db, fmt, notify, variant, env, users, servers, serverCalls, started>>

\* sendEmail returns; the chat credentials are read and the admin
\* notification goes out if both are set.
EmailReturn(s) ==
    /\ req[s].pc = "email"
    /\ NoneDone
    /\ \E provider \in {"ok", "error", "raise"} :
        LET result == sendEmail(provider)
            r == [req[s] EXCEPT !.emailResult = result]
            g == AfterEmail(result)
        IN  req' = [req EXCEPT ![s] =
                IF g # Proceed THEN Respond(r, g)
                ELSE IF ChatConfigured(env.TELEGRAM_BOT_TOKEN, env.TELEGRAM_ADMIN_CHAT_ID)
                     THEN [r EXCEPT !.pc = "chat", !.calls.chat = @ + 1]
                ELSE Respond(r, Provisioned)]
    /\ UNCHANGED <<db, fmt, notify, variant, env, orders, users, servers, serverCalls, started>>

\* The chat API answers (or the call raises).
ChatReturn(s) ==
    /\ req[s].pc = "chat"
    /\ NoneDone
    /\ \E answer \in {"ok", "notok", "raise"} :
        req' = [req EXCEPT ![s] = Respond([@ EXCEPT !.chat = answer], AfterChat(answer))]
    /\ UNCHANGED <<db, fmt, notify, variant, env, orders, users, servers, serverCalls, started>>

\* The invocation is over; its slot is free for the next request.
Finish(s) ==
    /\ req[s].pc = "done"
    /\ req' = [req EXCEPT ![s] = IdleReq]
    /\ UNCHANGED <<db, fmt, notify, variant, env, orders, users, servers, serverCalls, started>>

\* ------------------------------------------------- the broadcast handler
\* One record of the orders array: the fields that decide what is sent.
\* status "missing" is a record without a status field.
Records ==
    [status : {"waiting_confirmation", "done", "paid", "missing"},
     product_category : {PanelCategory, "ebook"},
     payment_proof : BOOLEAN,
     pterodactyl_server_id : BOOLEAN]

Batches == UNION { [1..n -> Records] : n \in 0..MaxBatch }

IdleNotify ==
    [pc |-> "idle", method |-> "none", payload |-> "none", orders |-> <<>>, i |-> 0,
     settings |-> "unread", panelUrl |-> "unset", reads |-> 0,
     sent |-> <<>>, answers |-> <<>>, errors |-> 0, resp |-> NoResp, responses |-> 0]

InvalidPayload == Json(400, "Invalid payload: 'orders' array is required.")
TelegramNotConfigured == Json(500, "Telegram bot credentials not configured.")
NotificationsSent == Json(200, "Notifications sent.")

\* the guards without the credentials check
NotifyGuardsNoCredentials(method, payload, token, chat_id) ==
    IF method # "POST" THEN MethodNotAllowed
    ELSE IF payload = "undefined" THEN InternalError("body")
    ELSE IF payload # "array" THEN InvalidPayload
    ELSE Proceed

\* method check, payload validation and credentials check
NotifyGuards(method, payload, token, chat_id) ==
    IF method # "POST" THEN MethodNotAllowed
    ELSE IF payload = "undefined" THEN InternalError("body")
    ELSE IF payload # "array" THEN InvalidPayload
    ELSE IF ~(token /\ chat_id) THEN TelegramNotConfigured
    ELSE Proceed

\* the panel URL without its "-" fallback
PanelUrlNoFallback(q) == IF q = "row" THEN "url" ELSE "undefined"

\* settingsData?.pterodactyl_panel_url || "-"
PanelUrl(q) == IF q = "row" THEN "url" ELSE "-"

\* a choice of the caption that looks at the payment proof
TemplateByProof(o) ==
    IF o.status = "waiting_confirmation" /\ o.payment_proof THEN "new_order"
    ELSE IF o.status = "done" /\ o.product_category = PanelCategory THEN "provisioned"
    ELSE "status_update"

\* the three-way choice of the caption
Template(o) ==
    IF o.status = "waiting_confirmation" THEN "new_order"
    ELSE IF o.status = "done" /\ o.product_category = PanelCategory THEN "provisioned"
    ELSE "status_update"

\* every record sent as a text message
ChatCallMessageOnly(o, k, url) ==
    [method |-> "sendMessage", template |-> Template(o), record |-> k,
     panelUrl |-> IF Template(o) = "provisioned" THEN url ELSE "none"]

\* sendPhoto for a record with a payment proof, sendMessage otherwise; the
\* caption of the provisioned template carries the panel URL
ChatCall(o, k, url) ==
    [method |-> IF o.payment_proof THEN "sendPhoto" ELSE "sendMessage",
     template |-> Template(o), record |-> k,
     panelUrl |-> IF Template(o) = "provisioned" THEN url ELSE "none"]

\* The loop from record k on, up to the next await: the loop is over (200),
\* building the caption raises (o.status.replace on a missing status: the
\* catch block answers 500), or the chat call for record k goes out.
Process(n, k) ==
    IF k > Len(n.orders) THEN Respond(n, NotificationsSent)
    ELSE IF n.orders[k].status = "missing" THEN Respond([n EXCEPT !.i = k], InternalError("status"))
    ELSE [n EXCEPT !.pc = "chat", !.i = k, !.sent = Append(@, ChatCall(n.orders[k], k, n.panelUrl))]

\* a loop that sends a record again after the chat API refused it
AfterRecordRetry(n, answer) ==
    LET a == [n EXCEPT !.answers = Append(@, answer)]
        tries == Cardinality({j \in DOMAIN n.sent : n.sent[j].record = n.i})
    IN  IF answer \in {"raise", "badjson"} THEN Respond(a, InternalError("telegram"))
        ELSE IF answer = "notok"
             THEN Process([a EXCEPT !.errors = @ + 1], IF tries < 2 THEN n.i ELSE n.i + 1)
        ELSE Process(a, n.i + 1)

\* what the handler does with the chat API's answer for a record:
\* a raising fetch or body goes to the catch block, ok=false is logged
AfterRecord(n, answer) ==
    LET a == [n EXCEPT !.answers = Append(@, answer)]
    IN  IF answer \in {"raise", "badjson"} THEN Respond(a, InternalError("telegram"))
        ELSE Process([a EXCEPT !.errors = IF answer = "notok" THEN @ + 1 ELSE @], n.i + 1)

NotifyReceive ==
    /\ notify.pc = "idle"
    /\ \E method \in {"POST", "GET"}, payload \in {"array", "notarray", "missing", "undefined"},
          batch \in Batches :
        LET g == NotifyGuards(method, payload, env.TELEGRAM_BOT_TOKEN, env.TELEGRAM_ADMIN_CHAT_ID)
            n == [notify EXCEPT !.method = method, !.payload = payload]
        IN  /\ payload # "array" => batch = <<>>
            /\ notify' = IF g # Proceed THEN Respond([n EXCEPT !.orders = batch], g)
                         ELSE [n EXCEPT !.pc = "settings", !.orders = batch, !.reads = @ + 1]
    /\ UNCHANGED <<db, fmt, variant, env, orders, users, servers, serverCalls, started, req>>

\* The settings row arrives (or not); the loop starts.
NotifySettingsReturn ==
    /\ notify.pc = "settings"
    /\ \E q \in {"row", "nourl", "norow", "error", "raise"} :
        LET n == [notify EXCEPT !.settings = q]
        IN  notify' = IF q = "raise" THEN Respond(n, InternalError("settings"))
                      ELSE Process([n EXCEPT !.panelUrl = PanelUrl(q)], 1)
    /\ UNCHANGED <<db, fmt, variant, env, orders, users, servers, serverCalls, started, req>>

\* The chat API answers for record notify.i; the loop goes on.
NotifyChatReturn ==
    /\ notify.pc = "chat"
    /\ \E answer \in {"ok", "notok", "raise", "badjson"} :
        notify' = AfterRecord(notify, answer)
    /\ UNCHANGED <<db, fmt, variant, env, orders, users, servers, serverCalls, started, req>>

\* --------------------------------------------------------- the formatter
\* A text is a sequence of characters; these are the five that escapeHtml
\* replaces, the one the status line replaces, and a letter.
Chars == {"&", "<", ">", "\"", "'", "_", "a"}
Texts == UNION { [1..n -> Chars] : n \in 0..MaxLen }

Fields == {"id", "username", "product_name", "payment_method", "contact_email",
           "status", "pterodactyl_server_id", "panel_url"}

IdleFmt == [pc |-> "idle", field |-> "none", text |-> <<>>, out |-> <<>>]

\* text.replace(/c/g, entity)
RECURSIVE ReplaceAll(_, _, _)
ReplaceAll(text, c, entity) ==
    IF text = <<>> THEN <<>>
    ELSE (IF Head(text) = c THEN entity ELSE <<Head(text)>>) \o ReplaceAll(Tail(text), c, entity)

\* escapeHtml without its last replacement
escapeHtmlNoApostrophe(text) ==
    IF text = <<>> THEN <<>>
    ELSE ReplaceAll(ReplaceAll(ReplaceAll(ReplaceAll(text,
            "&", <<"&", "a", "m", "p", ";">>),
            "<", <<"&", "l", "t", ";">>),
            ">", <<"&", "g", "t", ";">>),
            "\"", <<"&", "q", "u", "o", "t", ";">>)

\* escapeHtml: "" for a falsy value, else the five replacements in turn
escapeHtml(text) ==
    IF text = <<>> THEN <<>>
    ELSE ReplaceAll(ReplaceAll(ReplaceAll(ReplaceAll(ReplaceAll(text,
            "&", <<"&", "a", "m", "p", ";">>),
            "<", <<"&", "l", "t", ";">>),
            ">", <<"&", "g", "t", ";">>),
            "\"", <<"&", "q", "u", "o", "t", ";">>),
            "'", <<"&", "#", "0", "3", "9", ";">>)

\* .toUpperCase() on the alphabet
ToUpperCase(text) == [i \in 1..Len(text) |-> IF text[i] = "a" THEN "A" ELSE text[i]]

\* what is handed to escapeHtml for a field holding text
Prepared(field, text) ==
    CASE field = "status" -> ToUpperCase(ReplaceAll(text, "_", <<" ">>))
      [] field \in {"contact_email", "pterodactyl_server_id", "panel_url"} ->
            IF text = <<>> THEN <<"-">> ELSE text
      [] OTHER -> text

\* the value interpolated into the caption
Interpolated(field, text) == escapeHtml(Prepared(field, text))

\* One field of a record is escaped for the caption.
Format ==
    /\ fmt.pc = "in"
    /\ fmt' = [fmt EXCEPT !.pc = "out", !.out = Interpolated(fmt.field, fmt.text)]
    /\ UNCHANGED <<db, variant, env, orders, users, servers, serverCalls, started, req, notify>>

\* ---------------------------------------------------------- specification
\* product_id stands for the columns the handlers read and never write
\* (user_id, product_id, contact_email, username)
FreshOrder ==
    [status |-> "waiting_confirmation", pterodactyl_server_id |-> NoServerId, product_id |-> 1]

\* The settings variant reads no panel credentials from process.env.
Environments(v) ==
    { e \in [PTERODACTYL_API_KEY : BOOLEAN, PTERODACTYL_PANEL_URL : BOOLEAN,
             TELEGRAM_BOT_TOKEN : BOOLEAN, TELEGRAM_ADMIN_CHAT_ID : BOOLEAN] :
        v = "settings" => e.PTERODACTYL_API_KEY /\ e.PTERODACTYL_PANEL_URL }

Init ==
    /\ variant \in {"settings", "env"}
    /\ env \in Environments(variant)
    /\ orders = [i \in TableIds |-> FreshOrder]
    /\ users = <<>>
    /\ servers = <<>>
    /\ serverCalls = [i \in OrderIds |-> 0]
    /\ started = 0
    /\ req = [s \in Slots |-> IdleReq]
    /\ notify = IdleNotify
    /\ fmt = IdleFmt
    /\ db = NoWrites

Next ==
    \E s \in Slots :
        \/ Receive(s)
        \/ SettingsReturn(s)
        \/ OrderReturn(s)
        \/ SearchReturn(s)
        \/ CreateUserReturn(s)
        \/ CreateServerReturn(s)
        \/ UpdateReturn(s)
        \/ EmailReturn(s)
        \/ ChatReturn(s)
        \/ Finish(s)

Spec == Init /\ [][Next]_vars

\* the deployment of the settings-table variant alone
InitSettings == Init /\ variant = "settings"

SpecSettings == InitSettings /\ [][Next]_vars

\* the broadcast endpoint
NextNotify ==
    \/ NotifyReceive
    \/ NotifySettingsReturn
    \/ NotifyChatReturn

SpecNotify == InitSettings /\ [][NextNotify]_vars

\* Both endpoints of one deployment.  The broadcast handler reads the
\* settings table and process.env, which no handler writes, and the
\* provisioning handler reads nothing the broadcast handler writes: a run of
\* the deployment is a run of one endpoint interleaved with a run of the
\* other, neither seeing the other's steps.  The behaviours here serve
\* provisioning requests or a broadcast.
Quiet == \A s \in Slots : req[s].pc = "idle"

NextBoth ==
    \/ notify.pc = "idle" /\ Next
    \/ started = 0 /\ NextNotify

SpecBoth == InitSettings /\ [][NextBoth]_vars

\* Every awaited call returns or raises: an invocation that waits for an
\* answer gets one, and a finished invocation leaves.  Nothing obliges a
\* request to arrive.
Answered(s) ==
    \/ SettingsReturn(s)
    \/ OrderReturn(s)
    \/ SearchReturn(s)
    \/ CreateUserReturn(s)
    \/ CreateServerReturn(s)
    \/ UpdateReturn(s)
    \/ EmailReturn(s)
    \/ ChatReturn(s)
    \/ Finish(s)

NotifyAnswered == NotifySettingsReturn \/ NotifyChatReturn

SpecBothFair ==
    /\ SpecBoth
    /\ \A s \in Slots : WF_vars(notify.pc = "idle" /\ Answered(s))
    /\ WF_vars(NotifyAnswered)

\* Requests that run one after another: a request is received only when no
\* other is running.
NextSequential ==
    \E s \in Slots :
        \/ Quiet /\ Receive(s)
        \/ SettingsReturn(s)
        \/ OrderReturn(s)
        \/ SearchReturn(s)
        \/ CreateUserReturn(s)
        \/ CreateServerReturn(s)
        \/ UpdateReturn(s)
        \/ EmailReturn(s)
        \/ ChatReturn(s)
        \/ Finish(s)

SpecSequential == InitSettings /\ [][NextSequential]_vars

\* the formatter on every field and every text up to MaxLen characters
InitFormat ==
    /\ variant = "settings"
    /\ env = [PTERODACTYL_API_KEY |-> TRUE, PTERODACTYL_PANEL_URL |-> TRUE,
              TELEGRAM_BOT_TOKEN |-> TRUE, TELEGRAM_ADMIN_CHAT_ID |-> TRUE]
    /\ orders = [i \in TableIds |-> FreshOrder]
    /\ users = <<>>
    /\ servers = <<>>
    /\ serverCalls = [i \in OrderIds |-> 0]
    /\ started = 0
    /\ req = [s \in Slots |-> IdleReq]
    /\ notify = IdleNotify
    /\ db = NoWrites
    /\ \E f \in Fields, t \in Texts : fmt = [IdleFmt EXCEPT !.pc = "in", !.field = f, !.text = t]

NextFormat == Format

SpecFormat == InitFormat /\ [][NextFormat]_vars

\* ================================================================== claims
Configured == ChatConfigured(env.TELEGRAM_BOT_TOKEN, env.TELEGRAM_ADMIN_CHAT_ID)
NoCallsAfterPanel(r) == r.calls.update = 0 /\ r.calls.email = 0 /\ r.calls.chat = 0
SawServerId(r) == r.order.loaded /\ r.order.pterodactyl_server_id # NoServerId

\* C1: for every order, over any set of fulfillment requests (overlapping
\* ones included), at most one server-creation call is issued.
C1_AtMostOneServerCreation == \A o \in OrderIds : serverCalls[o] <= 1

\* C2 (as claimed): a request that loads an order already carrying a server
\* id answers 200 and issues no call, whatever the product category and
\* whether or not a panel config is linked.
C2_AlwaysSuccess ==
    \A s \in Slots :
        SawServerId(req[s]) =>
            /\ req[s].pc = "done"
            /\ req[s].resp.status = 200
            /\ req[s].calls = NoCalls

\* C2 (amended): a request that loads an order already carrying a server id
\* ends at once without any panel call, order update, e-mail or chat call;
\* it answers 200 "already provisioned" exactly when the order has a product
\* of category panel_pterodactyl with (settings variant) a linked panel
\* config, and the answer of the category or config guard otherwise.
C2_AlreadyProvisioned ==
    \A s \in Slots :
        SawServerId(req[s]) =>
            LET r == req[s]
                p == r.order.products
                passes == /\ p.present
                          /\ p.category = PanelCategory
                          /\ (variant = "settings" => p.pterodactyl_configs)
            IN  /\ r.pc = "done"
                /\ r.calls = NoCalls
                /\ passes => r.resp = AlreadyProvisioned
                /\ ~passes => r.resp.status \in {400, 500}

C2_Witness ==
    \E s \in Slots :
        /\ SawServerId(req[s])
        /\ req[s].resp = AlreadyProvisioned
        /\ orders[req[s].order_id].status = "done"

\* C3: a request that loads an order whose product category is not
\* panel_pterodactyl answers 400 and issues no panel call, order update,
\* e-mail or chat call.
C3_NotPanelProduct ==
    \A s \in Slots :
        LET r == req[s]
        IN  (r.order.loaded /\ r.order.products.present
                /\ r.order.products.category # PanelCategory) =>
                /\ r.pc = "done"
                /\ r.resp = NotPanelProduct
                /\ r.resp.status = 400
                /\ r.calls = NoCalls

C3_Witness ==
    \E s \in Slots :
        /\ req[s].order.loaded
        /\ req[s].order.products.category = "ebook"
        /\ req[s].order.pterodactyl_server_id = NoServerId
        /\ req[s].resp.status = 400

\* C4: one request on an order without server id, of category
\* panel_pterodactyl, with credentials and config, whose external calls all
\* succeed: one user creation iff the search found no match, one server
\* creation, one order update, one e-mail, one chat notification iff both
\* chat credentials are set, and the answer is 200; the update writes status
\* "done" and the uuid the panel returned for the server of this order.
AllSucceeded(r) ==
    /\ r.calls.update = 1
    /\ r.calls.createUser = 1 => r.userAnswer.ok
    /\ r.serverAnswer.ok
    /\ r.updateOrderError = "ok"
    /\ r.emailResult.success
    /\ r.calls.chat = 1 => r.chat = "ok"

C4_EndToEnd ==
    /\ [](\A s \in Slots :
            LET r == req[s]
            IN  (r.pc = "done" /\ AllSucceeded(r)) =>
                    /\ r.calls.search = 1
                    /\ r.calls.createUser = (IF r.found = "nomatch" THEN 1 ELSE 0)
                    /\ r.calls.createServer = 1
                    /\ r.calls.update = 1
                    /\ r.calls.email = 1
                    /\ r.emailResult.sends = 1
                    /\ r.calls.chat = (IF Configured THEN 1 ELSE 0)
                    /\ r.resp = Provisioned
                    /\ r.resp.status = 200
                    /\ servers[r.pterodactylServerId].external_id = r.order_id)
    /\ [][\A s \in Slots :
            (req[s].pc = "update" /\ req'[s].updateOrderError = "ok") =>
                /\ orders'[req[s].order_id] =
                      [status |-> "done",
                       pterodactyl_server_id |-> req[s].pterodactylServerId,
                     product_id |-> 1]
                /\ \A o \in OrderIds \ {req[s].order_id} : orders'[o] = orders[o]]_vars

C4_Witness ==
    \E s \in Slots :
        /\ req[s].pc = "done"
        /\ AllSucceeded(req[s])
        /\ req[s].found = "nomatch"
        /\ req[s].calls.createUser = 1
        /\ req[s].calls.chat = 1
        /\ orders[req[s].order_id].pterodactyl_server_id = req[s].pterodactylServerId
        /\ req[s].resp.status = 200

\* C5: in the broadcast handler a failure while processing one record (the
\* chat API answering ok=false, the chat call or its body raising, a record
\* without status) does not abort the batch: once the batch is accepted and
\* the panel URL resolved, every well-formed record gets its chat call and the
\* answer is the generic 200.
C5_BatchNeverAborted ==
    (notify.pc = "done" /\ notify.panelUrl # "unset") =>
        /\ notify.resp = NotificationsSent
        /\ \A k \in 1..Len(notify.orders) :
              notify.orders[k].status # "missing" =>
                  \E j \in 1..Len(notify.sent) : notify.sent[j].record = k

\* C6: whatever the chat call did (non-success answer or a
\* raised exception), the request that issued it answers 200.
C6_ChatNeverSurfaces ==
    \A s \in Slots :
        (req[s].pc = "done" /\ req[s].calls.chat = 1) => req[s].resp = Provisioned

\* C7: an order update that returns an error does not fail the request: the
\* e-mail is sent, the chat notification is sent if configured, the answer is
\* 200 (unless the chat call itself raises), and the failed update leaves the
\* orders table as it was.
C7_UpdateFailureTolerated ==
    /\ [](\A s \in Slots :
            LET r == req[s]
            IN  r.updateOrderError = "error" =>
                    /\ r.calls.email = 1
                    /\ r.pc \in {"email", "chat", "done"}
                    /\ r.pc = "done" =>
                          /\ r.emailResult.sends = 1
                          /\ r.calls.chat = (IF Configured THEN 1 ELSE 0)
                          /\ r.chat # "raise" => r.resp = Provisioned)
    /\ [][\A s \in Slots :
            (req[s].pc = "update" /\ req'[s].updateOrderError = "error") =>
                orders' = orders]_vars

C7_Witness ==
    \E s \in Slots :
        /\ req[s].pc = "done"
        /\ req[s].updateOrderError = "error"
        /\ req[s].resp.status = 200
        /\ orders[req[s].order_id] = FreshOrder
        /\ Len(servers) = 1

\* C8: a failed completion e-mail (provider error or transport exception) is
\* not surfaced: the handler goes on to the chat step and answers 200
\* (unless the chat call itself raises).
C8_EmailFailureTolerated ==
    \A s \in Slots :
        LET r == req[s]
        IN  (r.emailResult.sends = 1 /\ ~r.emailResult.success) =>
                /\ r.pc \in {"chat", "done"}
                /\ r.calls.chat = (IF Configured THEN 1 ELSE 0)
                /\ (r.pc = "done" /\ r.chat # "raise") => r.resp = Provisioned

C8_Witness ==
    \E s \in Slots :
        /\ req[s].pc = "done"
        /\ req[s].emailResult.payload = "error"
        /\ req[s].calls.chat = 1
        /\ req[s].resp.status = 200

\* C9: sendEmail returns a structured result for every outcome of the
\* provider call and never raises: {success: true, data} on success,
\* {success: false, error} otherwise, after exactly one provider call.
C9_SendEmailTotal ==
    \A s \in Slots :
        LET r == req[s]
        IN  (r.calls.email = 1 /\ r.pc \in {"chat", "done"}) =>
                /\ ~r.emailResult.raised
                /\ r.emailResult.sends = 1
                /\ r.emailResult.success => r.emailResult.payload = "data"
                /\ ~r.emailResult.success => r.emailResult.payload \in {"error", "message"}

C9_Witness ==
    \E s \in Slots :
        /\ req[s].emailResult.payload = "message"
        /\ ~req[s].emailResult.success
        /\ ~req[s].emailResult.raised

\* C10: a user creation that answers non-2xx or without attributes ends the
\* request with 500 before any server creation; a server creation that
\* answers non-2xx or without attributes ends it with 500; in both cases no
\* order update, no e-mail and no chat notification follow.
Rejected(answer) ==
    /\ answer \in CreateAnswers
    /\ ~answer.ok \/ answer.shape # "plain"

C10_FatalSteps ==
    \A s \in Slots :
        LET r == req[s]
        IN  /\ Rejected(r.userAnswer) =>
                /\ r.pc = "done"
                /\ r.resp = UserCreateFailed
                /\ r.resp.status = 500
                /\ r.calls.createServer = 0
                /\ NoCallsAfterPanel(r)
            /\ Rejected(r.serverAnswer) =>
                /\ r.pc = "done"
                /\ r.resp = ServerCreateFailed
                /\ r.resp.status = 500
                /\ NoCallsAfterPanel(r)

C10_Witness ==
    \E s \in Slots :
        /\ Rejected(req[s].userAnswer)
        /\ req[s].resp.status = 500
        /\ serverCalls[req[s].order_id] = 0

\* C11: LookupUser -> {Found | CreateUser} -> CreateServer -> Done.  The user
\* search is the first panel call; a user-creation call is issued only when
\* the search answer listed no record; when it listed one, no user is created
\* and the server-creation call carries the first listed user's id; the
\* server-creation call goes out only once a user id is in hand, from the
\* search or from a successful user creation.
FirstListed(r) == CHOOSE i \in r.search.listed : \A j \in r.search.listed : i <= j

C11_LookupThenCreate ==
    /\ [](\A s \in Slots :
            LET r == req[s]
            IN  /\ (r.calls.createUser = 1 \/ r.calls.createServer = 1) =>
                      r.calls.search = 1 /\ r.search.asked /\ ~r.search.raised
                /\ r.calls.createUser = 1 => r.search.listed = {}
                /\ r.search.listed # {} =>
                      /\ r.calls.createUser = 0
                      /\ r.calls.createServer = 1
                      /\ r.pterodactylUserId = FirstListed(r)
                /\ r.calls.createServer = 1 =>
                      /\ r.pterodactylUserId # NoUserId
                      /\ \/ r.search.listed # {}
                         \/ /\ r.calls.createUser = 1
                            /\ r.userAnswer.ok
                            /\ r.userAnswer.shape = "plain")
    /\ [][\A s \in Slots :
            /\ req'[s].calls.search > req[s].calls.search =>
                  req[s].calls.createUser = 0 /\ req[s].calls.createServer = 0
            /\ req'[s].calls.createUser > req[s].calls.createUser =>
                  req[s].pc = "search"
            /\ req'[s].calls.createServer > req[s].calls.createServer =>
                  req[s].pc \in {"search", "createUser"}]_vars

C11_Witness ==
    \E s \in Slots :
        /\ req[s].search.listed # {}
        /\ req[s].found = "match"
        /\ req[s].calls.createUser = 0
        /\ req[s].calls.createServer = 1
        /\ servers # <<>>
        /\ servers[Len(servers)].user = users[req[s].pterodactylUserId]

\* C12: a user search answered with a non-success HTTP status is logged and
\* by itself never ends the request: the handler takes the Found branch when
\* the body lists a match and the CreateUser branch otherwise.
C12_SearchStatusTolerated ==
    \A s \in Slots :
        LET r == req[s]
        IN  (r.search.asked /\ ~r.search.raised /\ ~r.search.ok) =>
                /\ r.search.logged
                /\ r.search.listed # {} => r.found = "match" /\ r.calls.createUser = 0
                /\ r.search.listed = {} => r.found = "nomatch" /\ r.calls.createUser = 1

\* C13: the template of a notification is a function of the record's status
\* and product category alone: waiting_confirmation selects the new-order
\* template, done with panel_pterodactyl the provisioned template, anything
\* else the status-update template, whatever the other fields hold.
Sent == { [call |-> notify.sent[j], o |-> notify.orders[notify.sent[j].record]] :
            j \in 1..Len(notify.sent) }

C13_TemplateSelection ==
    /\ \A x \in Sent :
        /\ x.o.status = "waiting_confirmation" => x.call.template = "new_order"
        /\ (x.o.status = "done" /\ x.o.product_category = PanelCategory) =>
              x.call.template = "provisioned"
        /\ (x.o.status # "waiting_confirmation"
              /\ ~(x.o.status = "done" /\ x.o.product_category = PanelCategory)) =>
              x.call.template = "status_update"
    /\ \A x, y \in Sent :
        (x.o.status = y.o.status /\ x.o.product_category = y.o.product_category) =>
            x.call.template = y.call.template

C13_Witness ==
    \E x, y \in Sent :
        /\ x.o.status = "waiting_confirmation"
        /\ y.o.status = "waiting_confirmation"
        /\ x.o.payment_proof /\ ~y.o.payment_proof
        /\ x.o.pterodactyl_server_id /\ ~y.o.pterodactyl_server_id
        /\ x.o.product_category # y.o.product_category
        /\ x.call.template = "new_order" /\ y.call.template = "new_order"

\* C14: whatever text a field holds, the value interpolated into the caption
\* has no raw < > " or ', and every & in it starts one of the five entities.
Entities ==
    { <<"&", "a", "m", "p", ";">>, <<"&", "l", "t", ";">>, <<"&", "g", "t", ";">>,
      <<"&", "q", "u", "o", "t", ";">>, <<"&", "#", "0", "3", "9", ";">> }

StartsEntity(text, i) ==
    \E e \in Entities :
        /\ i + Len(e) - 1 <= Len(text)
        /\ SubSeq(text, i, i + Len(e) - 1) = e

C14_EscapeTotal ==
    fmt.pc = "out" =>
        \A i \in 1..Len(fmt.out) :
            /\ fmt.out[i] \notin {"<", ">", "\"", "'"}
            /\ fmt.out[i] = "&" => StartsEntity(fmt.out, i)

C14_Witness ==
    /\ fmt.pc = "out"
    /\ fmt.field = "status"
    /\ fmt.text = <<"&", "'", "_">>
    /\ fmt.out = <<"&", "a", "m", "p", ";", "&", "#", "0", "3", "9", ";", " ">>

\* C15: one chat call per record, in the order of the batch: the j-th call is
\* the call for record j, sendPhoto when the record has a payment proof and
\* sendMessage otherwise; a batch whose calls all return ends with as many
\* calls as records.
C15_OneCallPerRecord ==
    /\ Len(notify.sent) <= Len(notify.orders)
    /\ \A j \in 1..Len(notify.sent) :
        /\ notify.sent[j].record = j
        /\ notify.sent[j].method =
              (IF notify.orders[j].payment_proof THEN "sendPhoto" ELSE "sendMessage")
    /\ (notify.pc = "done" /\ notify.resp = NotificationsSent) =>
          Len(notify.sent) = Len(notify.orders)

C15_Witness ==
    /\ notify.pc = "done"
    /\ notify.resp = NotificationsSent
    /\ Len(notify.orders) = MaxBatch
    /\ notify.orders[1].payment_proof
    /\ ~notify.orders[MaxBatch].payment_proof
    /\ notify.sent[1].method = "sendPhoto"
    /\ notify.sent[MaxBatch].method = "sendMessage"

\* C16: the settings row is read once per accepted batch, before the first
\* record, whatever the size of the batch; when the read finds no row or
\* returns another error the placeholder "-" is the panel URL of every
\* caption that carries one, and a batch whose records are well-formed and
\* whose chat calls return is processed to the end and answered 200.
RecordsFine(n) ==
    /\ \A k \in 1..Len(n.orders) : n.orders[k].status # "missing"
    /\ \A j \in 1..Len(n.answers) : n.answers[j] \in {"ok", "notok"}

C16_PanelUrlOnce ==
    /\ notify.reads <= 1
    /\ notify.sent # <<>> => notify.reads = 1 /\ notify.panelUrl # "unset"
    /\ notify.settings \in {"norow", "error"} =>
        /\ notify.reads = 1
        /\ notify.panelUrl = "-"
        /\ \A j \in 1..Len(notify.sent) : notify.sent[j].panelUrl \in {"-", "none"}
        /\ (notify.pc = "done" /\ RecordsFine(notify)) =>
              /\ notify.resp = NotificationsSent
              /\ notify.resp.status = 200
              /\ Len(notify.sent) = Len(notify.orders)

C16_Witness ==
    /\ notify.pc = "done"
    /\ notify.settings = "norow"
    /\ notify.resp.status = 200
    /\ Len(notify.orders) = MaxBatch
    /\ Len(notify.sent) = MaxBatch
    /\ notify.sent[MaxBatch].template = "provisioned"
    /\ notify.sent[MaxBatch].panelUrl = "-"

\* C17: the guards of the broadcast handler, in the order of the code: a
\* method other than POST gets 405, a POST whose orders field is missing or
\* not an array gets 400, a POST with an orders array but without bot token
\* or chat id gets 500; none of them reads the settings or calls the chat API.
C17_NotifyGuards ==
    LET n == notify
        rejected == \/ n.method = "GET"
                    \/ n.payload \in {"missing", "notarray"}
                    \/ (n.payload = "array" /\ ~Configured)
    IN  /\ n.method = "GET" => n.resp = MethodNotAllowed /\ n.resp.status = 405
        /\ (n.method = "POST" /\ n.payload \in {"missing", "notarray"}) =>
              n.resp = InvalidPayload /\ n.resp.status = 400
        /\ (n.method = "POST" /\ n.payload = "array" /\ ~Configured) =>
              n.resp = TelegramNotConfigured /\ n.resp.status = 500
        /\ rejected => n.pc = "done" /\ n.reads = 0 /\ n.sent = <<>>

C17_Witness ==
    /\ notify.method = "POST"
    /\ notify.payload = "array"
    /\ notify.orders # <<>>
    /\ ~Configured
    /\ notify.resp.status = 500

\* C18: the first failing guard decides the response, in the order method
\* (405), order id (400), panel credentials (500), order lookup (404),
\* product category (400), linked panel config (500), server id already set
\* (200); every one of these exits comes before any panel call, order update,
\* e-mail or chat call.
C18_GuardOrder ==
    \A s \in Slots :
        LET r == req[s]
            o == r.order
            early == r.pc = "done" /\ r.calls = NoCalls
            posted == r.method = "POST" /\ r.body = "json"
            rowOk == r.orderQuery = "row" /\ o.products.present
        IN  /\ r.method = "GET" => early /\ r.resp = MethodNotAllowed /\ r.resp.status = 405
            /\ (posted /\ r.order_id = NoOrderId) =>
                  early /\ r.resp = OrderIdRequired /\ r.resp.status = 400
            /\ r.settings \in {"norow", "incomplete"} =>
                  early /\ r.resp = CredentialsMissing /\ r.resp.status = 500
            /\ r.orderQuery = "error" =>
                  early /\ r.resp = OrderNotFound /\ r.resp.status = 404
            /\ (rowOk /\ o.products.category # PanelCategory) =>
                  early /\ r.resp = NotPanelProduct /\ r.resp.status = 400
            /\ (rowOk /\ o.products.category = PanelCategory
                    /\ ~o.products.pterodactyl_configs) =>
                  early /\ r.resp = ConfigNotLinked /\ r.resp.status = 500
            /\ (rowOk /\ o.products.category = PanelCategory
                    /\ o.products.pterodactyl_configs
                    /\ o.pterodactyl_server_id # NoServerId) =>
                  early /\ r.resp = AlreadyProvisioned /\ r.resp.status = 200

C18_Witness ==
    \E s \in Slots :
        /\ req[s].orderQuery = "row"
        /\ req[s].order.products.category = "ebook"
        /\ ~req[s].order.products.pterodactyl_configs
        /\ req[s].order.pterodactyl_server_id # NoServerId
        /\ req[s].resp.status = 400

\* C19: whatever raises inside the handler (the body of the request, a
\* database read, a panel call or its body, a missing product, contact
\* e-mail or allocation list, the order update, the chat call) ends the
\* request with 500 "Internal Server Error" and the failure's detail.
Caught(r, detail) ==
    /\ r.pc = "done"
    /\ r.resp = [status |-> 500, body |-> "Internal Server Error", details |-> detail]

C19_CatchAll ==
    \A s \in Slots :
        LET r == req[s]
        IN  /\ (r.method = "POST" /\ r.body = "undefined") => Caught(r, "body")
            /\ r.settings = "raise" => Caught(r, "settings")
            /\ r.orderQuery = "raise" => Caught(r, "orders")
            /\ (r.order.loaded /\ ~r.order.products.present) => Caught(r, "products")
            /\ ~r.nameable => Caught(r, "contact_email")
            /\ r.search.raised => Caught(r, "search")
            /\ r.userAnswer = Raised => Caught(r, "users")
            /\ r.serverAnswer = Raised => Caught(r, "servers")
            /\ r.allocation = "norel" => Caught(r, "allocations")
            /\ r.updateOrderError = "raise" => Caught(r, "update")
            /\ r.chat = "raise" => Caught(r, "chat")
            /\ ~r.emailResult.raised

C19_Witness ==
    \E s \in Slots :
        /\ req[s].chat = "raise"
        /\ req[s].resp.status = 500
        /\ req[s].resp.details = "chat"
        /\ orders[req[s].order_id].status = "done"

\* C20: within one request the steps go one way: the database reads come
\* before every panel call, the server creation before the order update, the
\* update before the e-mail, the e-mail before the chat call, the response
\* last; after the order update went out no read and no panel call follows,
\* and the update goes out only after a server creation that succeeded.
PanelCalls(r) == r.calls.search + r.calls.createUser + r.calls.createServer

C20_OneWay ==
    /\ [](\A s \in Slots :
            LET r == req[s]
            IN  /\ PanelCalls(r) > 0 =>
                      r.reads.settings = 1 /\ r.reads.orders = 1 /\ r.order.loaded
                /\ r.calls.update = 1 =>
                      /\ r.calls.createServer = 1
                      /\ r.serverAnswer.ok /\ r.serverAnswer.shape = "plain"
                /\ r.calls.email = 1 => r.calls.update = 1 /\ r.updateOrderError # "none"
                /\ r.calls.chat = 1 => r.calls.email = 1 /\ r.emailResult.sends = 1
                /\ r.pc = "done" <=> r.resp # NoResp)
    /\ [][\A s \in Slots :
            /\ (req'[s].reads.settings > req[s].reads.settings
                    \/ req'[s].reads.orders > req[s].reads.orders
                    \/ PanelCalls(req'[s]) > PanelCalls(req[s])) =>
                  req[s].calls.update = 0 /\ req'[s].calls.update = 0
            /\ req'[s].calls.update > req[s].calls.update => req[s].pc = "createServer"
            /\ req'[s].calls.email > req[s].calls.email => req[s].pc = "update"
            /\ req'[s].calls.chat > req[s].calls.chat => req[s].pc = "email"
            /\ req[s].pc = "done" => req'[s] \in {req[s], IdleReq}]_vars

C20_Witness ==
    \E s \in Slots :
        /\ req[s].pc = "done"
        /\ req[s].reads = [settings |-> 1, orders |-> 1]
        /\ req[s].calls = [search |-> 1, createUser |-> 1, createServer |-> 1,
                           update |-> 1, email |-> 1, chat |-> 1]
        /\ req[s].resp = Provisioned

\* C21: no operation is retried.  Within one fulfillment request the user
\* search, the user creation, the server creation, the order update, the
\* e-mail (and the provider call inside it) and the chat call are each issued
\* at most once, whatever they answered; within one broadcast request no
\* record gets a second chat call, and every call but the one in flight has
\* exactly one answer.
C21_NoRetry ==
    /\ \A s \in Slots :
        LET r == req[s]
        IN  /\ r.calls.search <= 1 /\ r.calls.createUser <= 1
            /\ r.calls.createServer <= 1 /\ r.calls.update <= 1
            /\ r.calls.email <= 1 /\ r.calls.chat <= 1
            /\ r.emailResult.sends <= 1
    /\ \A j, k \in DOMAIN notify.sent :
        notify.sent[j].record = notify.sent[k].record => j = k
    /\ Len(notify.sent) = Len(notify.answers) + (IF notify.pc = "chat" THEN 1 ELSE 0)

\* the chat API refused every record of a full batch, and each was sent once
C21_Witness ==
    /\ notify.pc = "done" /\ notify.resp = NotificationsSent
    /\ Len(notify.orders) = MaxBatch
    /\ Len(notify.sent) = MaxBatch
    /\ notify.errors = MaxBatch
    /\ \A k \in 1..MaxBatch : notify.answers[k] = "notok" /\ notify.sent[k].record = k

\* C22: a server-creation answer with valid attributes and an empty allocation
\* list.  Settings variant (the guarded read): the order update is issued with
\* the server's uuid and, when it succeeds, writes status "done" and that uuid;
\* unless the update raises, the e-mail is sent with "N/A" for ip and port;
\* unless the update or the chat call raises, the answer is 200.  Env variant
\* (the unguarded read): the request ends with 500 from the catch block, the
\* server exists at the panel and no order update was issued.
EmptyAllocation(r) == r.serverAnswer.ok /\ r.allocation = "empty"

C22_EmptyAllocation ==
    /\ [](\A s \in Slots :
            LET r == req[s]
            IN  EmptyAllocation(r) =>
                    /\ r.pterodactylServerId \in DOMAIN servers
                    /\ servers[r.pterodactylServerId].external_id = r.order_id
                    /\ variant = "settings" =>
                            /\ r.calls.update = 1
                            /\ (r.pc # "update" /\ r.updateOrderError # "raise") =>
                                    r.calls.email = 1 /\ r.emailIp = "N/A"
                            /\ (r.pc = "done" /\ r.updateOrderError # "raise" /\ r.chat # "raise") =>
                                    r.resp = Provisioned
                    /\ variant = "env" =>
                            /\ Caught(r, "allocations")
                            /\ r.calls.update = 0 /\ r.calls.email = 0 /\ r.calls.chat = 0)
    /\ [][\A s \in Slots :
            (/\ EmptyAllocation(req[s])
             /\ req[s].pc = "update"
             /\ req'[s].updateOrderError = "ok") =>
                orders'[req[s].order_id] =
                    [status |-> "done", pterodactyl_server_id |-> req[s].pterodactylServerId,
                     product_id |-> 1]]_vars

\* settings variant: a request whose server came without allocation has
\* answered 200, its e-mail carried "N/A" and its order is done
C22_Witness ==
    /\ variant = "settings"
    /\ \E s \in Slots :
        LET r == req[s]
        IN  /\ EmptyAllocation(r)
            /\ r.pc = "done" /\ r.resp = Provisioned
            /\ r.updateOrderError = "ok"
            /\ r.emailIp = "N/A"
            /\ orders[r.order_id] =
                    [status |-> "done", pterodactyl_server_id |-> r.pterodactylServerId,
                     product_id |-> 1]

\* C23: requests that run one after another.  A request reads the server id
\* the table holds; once an order holds one, every request that loads the
\* order issues no panel, update, e-mail or chat call and answers 200 (as long
\* as the product is still a panel product with its config), no further
\* server-creation call is issued and no server is added for the order; so
\* when the first server created for an order is the one persisted, it is
\* the only one.  A request that loads the order without a server id is not
\* stopped by the check: with a panel user at hand it issues a server
\* creation, the second one if an earlier request already issued one.
ServersOf(o) == { i \in 1..Len(servers) : servers[i].external_id = o }

UserAtHand(r) ==
    \/ r.found = "match"
    \/ r.found = "nomatch" /\ r.userAnswer # NoAnswer /\ UserCreateOk(variant, r.userAnswer)

C23_SequentialIdempotence ==
    /\ [](\A s \in Slots :
            LET r == req[s]
                p == r.order.products
            IN  r.order.loaded =>
                    /\ r.updateOrderError # "ok" =>
                            r.order.pterodactyl_server_id = orders[r.order_id].pterodactyl_server_id
                    /\ SawServerId(r) =>
                            /\ r.pc = "done"
                            /\ r.calls = NoCalls
                            /\ (p.present /\ p.category = PanelCategory /\ p.pterodactyl_configs) =>
                                    r.resp = AlreadyProvisioned
                    /\ ~SawServerId(r) =>
                            /\ r.resp # AlreadyProvisioned
                            /\ UserAtHand(r) => r.calls.createServer = 1)
    /\ [](\A o \in OrderIds :
            LET sid == orders[o].pterodactyl_server_id
            IN  (sid # NoServerId /\ \A i \in ServersOf(o) : sid <= i) =>
                    ServersOf(o) = {sid})
    /\ [][\A o \in OrderIds :
            orders[o].pterodactyl_server_id # NoServerId =>
                /\ serverCalls'[o] = serverCalls[o]
                /\ ServersOf(o)' = ServersOf(o)]_vars

\* the first request provisioned the order and stored the id; the second
\* one, run after it, answered 200 without a call: one call, one server
C23_Witness ==
    /\ started = 2
    /\ \E s \in Slots :
        LET r == req[s]
        IN  /\ SawServerId(r)
            /\ r.resp = AlreadyProvisioned
            /\ r.calls = NoCalls
            /\ serverCalls[r.order_id] = 1
            /\ ServersOf(r.order_id) = {orders[r.order_id].pterodactyl_server_id}

\* C26: requests that run one after another.  A request whose search lists a
\* panel user registered under the order's contact e-mail takes the found
\* branch: it issues no user-creation call, no account is added at the panel,
\* and its server creation is issued for a listed user, the account an
\* earlier request created for that e-mail.
C26_RetryReusesUser ==
    /\ [](\A s \in Slots :
            LET r == req[s]
            IN  (r.search.asked /\ r.search.listed # {}) =>
                    /\ r.found = "match"
                    /\ r.calls.createUser = 0
                    /\ r.userAnswer = NoAnswer
                    /\ r.calls.createServer = 1
                    /\ r.pterodactylUserId \in r.search.listed
                    /\ r.pterodactylUserId \in DOMAIN users
                    /\ users[r.pterodactylUserId] = r.order_id)
    /\ [][\A s \in Slots :
            (req[s].search.asked /\ req[s].search.listed # {}) => users' = users]_vars

\* the first request created the user and failed at server creation; the
\* second one, run after it, found that user and issued the second server
\* creation for it, with the order still as it was
C26_Witness ==
    /\ started = 2
    /\ Len(users) = 1
    /\ servers = <<>>
    /\ \E s \in Slots :
        LET r == req[s]
        IN  /\ r.search.asked /\ r.search.listed = {1}
            /\ r.found = "match"
            /\ r.pc = "createServer"
            /\ r.pterodactylUserId = 1
            /\ users[1] = r.order_id
            /\ serverCalls[r.order_id] = 2
            /\ orders[r.order_id] = FreshOrder

\* C24: every request to either handler gets exactly one response.  An
\* invocation that has ended has sent one response and one that is running
\* has sent none; and, every awaited call returning or raising, an invocation
\* that has started ends.
C24_ExactlyOneResponse ==
    /\ [](\A s \in Slots :
            req[s].responses = (IF req[s].pc = "done" THEN 1 ELSE 0))
    /\ [](notify.responses = (IF notify.pc = "done" THEN 1 ELSE 0))
    /\ \A s \in Slots :
            (req[s].pc \notin {"idle", "done"}) ~> (req[s].pc = "done" /\ req[s].responses = 1)
    /\ (notify.pc \notin {"idle", "done"}) ~> (notify.pc = "done" /\ notify.responses = 1)

\* a request went through every step, its last call raised, and the catch
\* block sent the one response
C24_Witness ==
    \E s \in Slots :
        /\ req[s].pc = "done"
        /\ req[s].responses = 1
        /\ req[s].calls.chat = 1 /\ req[s].chat = "raise"
        /\ req[s].resp.status = 500

\* C25: the frame of the database writes.  No step writes the settings,
\* products or pterodactyl_configs table, and no step of the broadcast
\* handler changes the orders table.  A step that changes a row of the orders
\* table is the successful update of a request for that order whose server
\* creation, in the same request, had succeeded; it sets status to "done" and
\* pterodactyl_server_id to that server's uuid and leaves the row's other
\* columns and every other row as they were.
C25_WriteFrame ==
    [][/\ db' = db
       /\ DOMAIN orders' = DOMAIN orders
       /\ notify' # notify => orders' = orders
       /\ \A o \in TableIds :
            orders'[o] # orders[o] =>
                \E s \in Slots :
                    /\ req[s].order_id = o
                    /\ req[s].pc = "update"
                    /\ req'[s].updateOrderError = "ok"
                    /\ req[s].calls.createServer = 1
                    /\ req[s].serverAnswer = [ok |-> TRUE, shape |-> "plain"]
                    /\ req[s].pterodactylServerId \in DOMAIN servers
                    /\ servers[req[s].pterodactylServerId].external_id = o
                    /\ orders'[o].product_id = orders[o].product_id
                    /\ orders'[o].status = "done"
                    /\ orders'[o].pterodactyl_server_id = req[s].pterodactylServerId
                    /\ \A other \in TableIds \ {o} : orders'[other] = orders[other]]_vars

\* a request has written its order; the other order and the other tables
\* are as they were at the start
C25_Witness ==
    /\ db = NoWrites
    /\ orders[OtherOrderId] = FreshOrder
    /\ \E s \in Slots :
        LET r == req[s]
        IN  /\ r.updateOrderError = "ok"
            /\ orders[r.order_id].status = "done"
            /\ orders[r.order_id].pterodactyl_server_id = r.pterodactylServerId
            /\ orders[r.order_id].product_id = FreshOrder.product_id

====
